---- MODULE Spec2Model ----
(***************************************************************************)
(* Model of the GitHub/DingTalk agent: GitHubHandler.process               *)
(* (github_dingtalk_agent.py) dispatching an HTTP-shaped request to one     *)
(* operation of GitHubClient (github_client.py).                            *)
(*                                                                          *)
(* Strings are sequences of tokens.  A token is "/", "?", "#", "&", "=",    *)
(* "[", a percent escape ("%2F", "%3F", "%23", "%5B") or a word without     *)
(* any of these characters.  No two adjacent words of an input spell a      *)
(* route keyword, so the token-level prefix, suffix, substring, count and   *)
(* split below agree with Python's character-level ones.                    *)
(***************************************************************************)
EXTENDS Integers, Sequences, FiniteSets, TLC

VARIABLES
    pc,         \* "idle": waiting for a callback; "done": process has just ended
    headers,    \* GitHubClient.headers: set of <<name, value>>, shared by all requests
    request,    \* the envelope handled last: [method, uri, body]
    upstream,   \* what the upstream service answered to that request's call, if one was made
    raised,     \* TRUE when process ended by an exception instead of returning
    ack,        \* the acknowledgement token process returned ("" when it raised)
    response,   \* the response envelope process returned
    calls       \* the upstream calls made while handling that request

vars == <<pc, headers, request, upstream, raised, ack, response, calls>>

\* ------------------------------------------------------------------------
\* Bounds
\* ------------------------------------------------------------------------

\* Longest file path (in segments) after /contents/ among the request URIs.
MaxFilePath == 2

\* ------------------------------------------------------------------------
\* Python str operations, on token sequences
\* ------------------------------------------------------------------------

\* s[i:], with i counted from 0 as in Python.
From(s, i) == IF i >= Len(s) THEN <<>> ELSE SubSeq(s, i + 1, Len(s))

\* s[:i]
Upto(s, i) == IF i <= 0 THEN <<>> ELSE SubSeq(s, 1, IF i > Len(s) THEN Len(s) ELSE i)

\* s.startswith(p)
StartsWith(s, p) == Len(s) >= Len(p) /\ SubSeq(s, 1, Len(p)) = p

\* s.endswith(p)
EndsWith(s, p) == Len(s) >= Len(p) /\ SubSeq(s, Len(s) - Len(p) + 1, Len(s)) = p

\* s.find(p, i): the first position at or after i at which p occurs in s,
\* -1 when there is none.  Positions count from 0 as in Python.
RECURSIVE FindFrom(_, _, _)
FindFrom(s, p, i) ==
    IF i + Len(p) > Len(s) THEN -1
    ELSE IF SubSeq(s, i + 1, i + Len(p)) = p THEN i
    ELSE FindFrom(s, p, i + 1)

\* s.find(p)
Find(s, p) == FindFrom(s, p, 0)

\* p in s
Contains(s, p) == Find(s, p) >= 0

\* s.count(t) for a one-token t
Count(s, t) == Cardinality({ i \in 1..Len(s) : s[i] = t })

\* s.split(p): the pieces of s between the non-overlapping occurrences of p,
\* taken left to right.
RECURSIVE Split(_, _)
Split(s, p) ==
    LET i == Find(s, p)
    IN  IF i < 0 THEN << s >>
        ELSE << Upto(s, i) >> \o Split(From(s, i + Len(p)), p)

\* p.join(list)
RECURSIVE Join(_, _)
Join(list, p) ==
    IF list = <<>> THEN <<>>
    ELSE IF Len(list) = 1 THEN list[1]
    ELSE list[1] \o p \o Join(Tail(list), p)

\* ------------------------------------------------------------------------
\* urllib.parse: unquote, urlparse, parse_qs
\* ------------------------------------------------------------------------

\* unquote of one token: a percent escape becomes the character it encodes.
UnquoteToken(t) ==
    CASE t = "%2F" -> "/"
      [] t = "%3F" -> "?"
      [] t = "%23" -> "#"
      [] t = "%5B" -> "["
      [] OTHER -> t

\* unquote(uri)
unquote(uri) == [ i \in 1..Len(uri) |-> UnquoteToken(uri[i]) ]

\* The end of the network location of a url that starts with "//": the first
\* "/", "?" or "#" at or after position 2, or the end of the url.
RECURSIVE NetlocEndFrom(_, _)
NetlocEndFrom(url, i) ==
    IF i >= Len(url) THEN Len(url)
    ELSE IF url[i + 1] \in {"/", "?", "#"} THEN i
    ELSE NetlocEndFrom(url, i + 1)

NetlocEnd(url) == NetlocEndFrom(url, 2)

\* urlparse(url): [error, path, query].  A url that starts with "//" has a
\* network location, which is cut off; a "[" in it without its "]" is the
\* ValueError "Invalid IPv6 URL" (no modelled url holds a "]").  Then the
\* fragment is cut at the first "#" and the query at the first "?".
urlparse(url) ==
    LET hasNetloc == StartsWith(url, <<"/", "/">>)
        delim     == NetlocEnd(url)
        netloc    == IF hasNetloc THEN SubSeq(url, 3, delim) ELSE <<>>
        rest      == IF hasNetloc THEN From(url, delim) ELSE url
        hash      == Find(rest, <<"#">>)
        noFrag    == IF hash >= 0 THEN Upto(rest, hash) ELSE rest
        mark      == Find(noFrag, <<"?">>)
    IN  [ error |-> Contains(netloc, <<"[">>),
          path  |-> IF mark >= 0 THEN Upto(noFrag, mark) ELSE noFrag,
          query |-> IF mark >= 0 THEN From(noFrag, mark + 1) ELSE <<>> ]

\* The name=value pairs of a query string, in order; a field without "=" or
\* with an empty value is dropped (keep_blank_values is off).
QueryPairs(query) ==
    LET fields == Split(query, <<"&">>)
    IN  SelectSeq(fields,
                  LAMBDA f : Contains(f, <<"=">>) /\ From(f, Find(f, <<"=">>) + 1) # <<>>)

\* parse_qs(query).get(key, [default])[0]: the first value of key, or default.
QueryGet(query, key, default) ==
    LET hits == SelectSeq(QueryPairs(query),
                          LAMBDA f : Upto(f, Find(f, <<"=">>)) = << key >>)
    IN  IF hits = <<>> THEN default ELSE From(hits[1], Find(hits[1], <<"=">>) + 1)

\* ------------------------------------------------------------------------
\* JSON values and request bodies
\* ------------------------------------------------------------------------

\* The fields the handlers read from a request body or send upstream.
Keys == {"content", "message", "sha", "branch", "title", "body", "state",
         "labels", "name", "description", "private"}

\* A JSON value is [t, v]: its type and its text.  Absent marks a key that a
\* mapping does not hold; Null is JSON null / Python None.
Absent == [t |-> "absent", v |-> ""]
Null == [t |-> "null", v |-> ""]
Str(s) == [t |-> "str", v |-> s]
Bool(b) == [t |-> "bool", v |-> b]
List(l) == [t |-> "list", v |-> l]

\* Python truth of a value: None, "", False and [] are false.
Truthy(j) ==
    CASE j.t = "str" -> j.v # ""
      [] j.t = "bool" -> j.v = "true"
      [] j.t = "list" -> j.v # ""
      [] OTHER -> FALSE

\* The empty mapping {}.
EmptyDict == [ k \in Keys |-> Absent ]

\* A mapping given by the keys it holds.
Dict(f) == [ k \in Keys |-> IF k \in DOMAIN f THEN f[k] ELSE Absent ]

\* data.get(key, default)
Get(data, key, default) == IF data[key] = Absent THEN default ELSE data[key]

\* bool(data) of a mapping: it holds at least one key.
DictTruthy(data) == \E k \in Keys : data[k] # Absent

\* JsonLoadsBody with a parser that gives {} for text that is not JSON.
JsonLoadsBodyLenient(body) ==
    IF body.kind = "object"
    THEN [error |-> FALSE, text |-> <<>>, isDict |-> TRUE, obj |-> body.obj]
    ELSE [error |-> FALSE, text |-> <<>>, isDict |-> body.kind # "array", obj |-> EmptyDict]

\* json.loads(request.body) if request.body else {}: [error, text, isDict, obj].
\* A body is [kind, obj] with kind "empty", "malformed" (not JSON), "array"
\* (JSON, but no mapping) or "object".
JsonLoadsBody(body) ==
    CASE body.kind = "empty" ->
           [error |-> FALSE, text |-> <<>>, isDict |-> TRUE, obj |-> EmptyDict]
      [] body.kind = "malformed" ->
           [error |-> TRUE, text |-> <<"Expecting value: line 1 column 1 (char 0)">>,
            isDict |-> FALSE, obj |-> EmptyDict]
      [] body.kind = "array" ->
           [error |-> FALSE, text |-> <<>>, isDict |-> FALSE, obj |-> EmptyDict]
      [] OTHER ->
           [error |-> FALSE, text |-> <<>>, isDict |-> TRUE, obj |-> body.obj]

\* base64.b64decode(content).decode('utf-8'): [error, text, value].
B64Decode(j) ==
    CASE j.t # "str" ->
           [error |-> TRUE, value |-> "",
            text |-> <<"argument should be a bytes-like object or ASCII string">>]
      [] j.v = "aGVsbG8=" -> [error |-> FALSE, value |-> "hello", text |-> <<>>]
      [] j.v = "aGk=" -> [error |-> FALSE, value |-> "hi", text |-> <<>>]
      [] j.v = "" -> [error |-> FALSE, value |-> "", text |-> <<>>]
      [] j.v = "/w==" ->
           [error |-> TRUE, value |-> "",
            text |-> <<"'utf-8' codec can't decode byte 0xff in position 0: invalid start byte">>]
      [] OTHER -> [error |-> TRUE, value |-> "", text |-> <<"Incorrect padding">>]

\* base64.b64encode(content.encode('utf-8')).decode('utf-8')
B64Encode(s) ==
    CASE s = "hello" -> "aGVsbG8="
      [] s = "hi" -> "aGk="
      [] OTHER -> ""

\* int(s) of a path segment or query value: [error, value].
IntOf(s) ==
    CASE s = <<"7">> -> [error |-> FALSE, value |-> 7]
      [] s = <<"07">> -> [error |-> FALSE, value |-> 7]
      [] s = <<"5">> -> [error |-> FALSE, value |-> 5]
      [] s = <<"30">> -> [error |-> FALSE, value |-> 30]
      [] OTHER -> [error |-> TRUE, value |-> 0]

\* ------------------------------------------------------------------------
\* GitHubClient (github_client.py)
\* ------------------------------------------------------------------------

\* GitHubClient.__init__: the headers built at construction.
InitHeaders ==
    { <<"Authorization", "token">>,
      <<"Accept", "application/vnd.github.v3+json">>,
      <<"User-Agent", "Python-GitHub-Client">> }

\* self.headers['Content-Type'] = 'application/json'
SetContentType(h) ==
    { e \in h : e[1] # "Content-Type" } \cup { <<"Content-Type", "application/json">> }

\* The headers _make_request leaves in self.headers: a truthy payload adds
\* Content-Type to the client's own header mapping.
HeadersAfter(h, data) == IF DictTruthy(data) THEN SetContentType(h) ELSE h

\* Answer with the remote's message read from a key the error body lacks, so
\* that every rejection reads "Unknown error".
AnswerDropsMessage(out) ==
    CASE out.kind = "ok" -> [exc |-> FALSE, text |-> <<>>, value |-> out.message]
      [] out.kind = "ok_empty" -> [exc |-> FALSE, text |-> <<>>, value |-> "{}"]
      [] out.kind \in {"http_json", "http_json_nomsg"} ->
           [exc |-> TRUE, value |-> "",
            text |-> <<"GitHub API Error ", ToString(out.code), ": ", "Unknown error">>]
      [] out.kind = "http_text" ->
           [exc |-> TRUE, value |-> "",
            text |-> <<"HTTP Error ", ToString(out.code), ": ", out.message>>]
      [] OTHER ->
           [exc |-> TRUE, value |-> "", text |-> <<"Network Error: ", out.message>>]

\* What _make_request returns or raises for the upstream's answer `out`:
\* [exc, text, value].
Answer(out) ==
    CASE out.kind = "ok" -> [exc |-> FALSE, text |-> <<>>, value |-> out.message]
      [] out.kind = "ok_empty" -> [exc |-> FALSE, text |-> <<>>, value |-> "{}"]
      [] out.kind = "http_json" ->
           [exc |-> TRUE, value |-> "",
            text |-> <<"GitHub API Error ", ToString(out.code), ": ", out.message>>]
      [] out.kind = "http_json_nomsg" ->
           [exc |-> TRUE, value |-> "",
            text |-> <<"GitHub API Error ", ToString(out.code), ": ", "Unknown error">>]
      [] out.kind = "http_text" ->
           [exc |-> TRUE, value |-> "",
            text |-> <<"HTTP Error ", ToString(out.code), ": ", out.message>>]
      [] OTHER ->
           [exc |-> TRUE, value |-> "", text |-> <<"Network Error: ", out.message>>]

\* One upstream call: the client operation and its arguments, and the HTTP
\* request _make_request built for it.
Call(op, a, method, endpoint, data, h) ==
    [ op |-> op, owner |-> a.owner, repo |-> a.repo, path |-> a.path,
      number |-> a.number, extra |-> a.extra, args |-> a.args,
      method |-> method, endpoint |-> endpoint,
      sent |-> DictTruthy(data),
      payload |-> IF DictTruthy(data) THEN data ELSE EmptyDict,
      headers |-> HeadersAfter(h, data) ]

\* The arguments of a client operation; the ones it does not take stay empty.
NoArgs == [ owner |-> <<>>, repo |-> <<>>, path |-> <<>>, number |-> -1,
            extra |-> <<>>, args |-> EmptyDict ]

\* _make_request sending the request a second time when the first fails.
_make_request_retry(op, a, method, endpoint, data, h, out) ==
    [ exc |-> Answer(out).exc, text |-> Answer(out).text, value |-> Answer(out).value,
      calls |-> IF Answer(out).exc
                THEN << Call(op, a, method, endpoint, data, h),
                        Call(op, a, method, endpoint, data, HeadersAfter(h, data)) >>
                ELSE << Call(op, a, method, endpoint, data, h) >>,
      headers |-> HeadersAfter(h, data) ]

\* _make_request(method, endpoint, data) under client headers h, the upstream
\* answering `out`: [exc, text, value, calls, headers].
_make_request(op, a, method, endpoint, data, h, out) ==
    [ exc |-> Answer(out).exc, text |-> Answer(out).text, value |-> Answer(out).value,
      calls |-> << Call(op, a, method, endpoint, data, h) >>,
      headers |-> HeadersAfter(h, data) ]

\* "repos/{owner}/{repo}"
RepoEndpoint(owner, repo) == <<"repos", "/">> \o owner \o <<"/">> \o repo

get_user(username, h, out) ==
    _make_request("get_user", [NoArgs EXCEPT !.extra = << username >>], "GET",
                  IF username # <<>> THEN <<"users", "/">> \o username ELSE <<"user">>,
                  EmptyDict, h, out)

get_user_repos(per_page, h, out) ==
    _make_request("get_user_repos", [NoArgs EXCEPT !.number = per_page], "GET",
                  <<"user", "/", "repos", "?", "per_page", "=", ToString(per_page)>>,
                  EmptyDict, h, out)

get_repo(owner, repo, h, out) ==
    _make_request("get_repo", [NoArgs EXCEPT !.owner = owner, !.repo = repo], "GET",
                  RepoEndpoint(owner, repo), EmptyDict, h, out)

create_repo(name, description, private, h, out) ==
    _make_request("create_repo",
                  [NoArgs EXCEPT !.args = Dict([name |-> name, description |-> description,
                                                private |-> private])],
                  "POST", <<"user", "/", "repos">>,
                  Dict([name |-> name, description |-> description, private |-> private]),
                  h, out)

delete_repo(owner, repo, h, out) ==
    _make_request("delete_repo", [NoArgs EXCEPT !.owner = owner, !.repo = repo], "DELETE",
                  RepoEndpoint(owner, repo), EmptyDict, h, out)

fork_repo(owner, repo, h, out) ==
    _make_request("fork_repo", [NoArgs EXCEPT !.owner = owner, !.repo = repo], "POST",
                  RepoEndpoint(owner, repo) \o <<"/", "forks">>, EmptyDict, h, out)

get_file_content(owner, repo, path, ref, h, out) ==
    _make_request("get_file_content",
                  [NoArgs EXCEPT !.owner = owner, !.repo = repo, !.path = path,
                                 !.extra = << ref >>],
                  "GET",
                  RepoEndpoint(owner, repo) \o <<"/", "contents", "/">> \o path
                      \o <<"?", "ref", "=">> \o ref,
                  EmptyDict, h, out)

create_file(owner, repo, path, content, message, branch, h, out) ==
    _make_request("create_file",
                  [NoArgs EXCEPT !.owner = owner, !.repo = repo, !.path = path,
                                 !.args = Dict([content |-> Str(content), message |-> message,
                                                branch |-> branch])],
                  "PUT", RepoEndpoint(owner, repo) \o <<"/", "contents", "/">> \o path,
                  Dict([message |-> message, content |-> Str(B64Encode(content)),
                        branch |-> branch]),
                  h, out)

update_file(owner, repo, path, content, message, sha, branch, h, out) ==
    _make_request("update_file",
                  [NoArgs EXCEPT !.owner = owner, !.repo = repo, !.path = path,
                                 !.args = Dict([content |-> Str(content), message |-> message,
                                                sha |-> sha, branch |-> branch])],
                  "PUT", RepoEndpoint(owner, repo) \o <<"/", "contents", "/">> \o path,
                  Dict([message |-> message, content |-> Str(B64Encode(content)),
                        sha |-> sha, branch |-> branch]),
                  h, out)

get_issues(owner, repo, state, h, out) ==
    _make_request("get_issues",
                  [NoArgs EXCEPT !.owner = owner, !.repo = repo, !.extra = << state >>],
                  "GET",
                  RepoEndpoint(owner, repo) \o <<"/", "issues", "?", "state", "=">> \o state,
                  EmptyDict, h, out)

\* data = {"title": title, "body": body}; labels are added when truthy.
create_issue(owner, repo, title, body, labels, h, out) ==
    _make_request("create_issue",
                  [NoArgs EXCEPT !.owner = owner, !.repo = repo,
                                 !.args = Dict([title |-> title, body |-> body,
                                                labels |-> labels])],
                  "POST", RepoEndpoint(owner, repo) \o <<"/", "issues">>,
                  [ Dict([title |-> title, body |-> body])
                      EXCEPT !["labels"] = IF Truthy(labels) THEN labels ELSE Absent ],
                  h, out)

\* data = {}; title, body and state are each added when truthy.
update_issue(owner, repo, issue_number, title, body, state, h, out) ==
    _make_request("update_issue",
                  [NoArgs EXCEPT !.owner = owner, !.repo = repo, !.number = issue_number,
                                 !.args = Dict([title |-> title, body |-> body,
                                                state |-> state])],
                  "PATCH",
                  RepoEndpoint(owner, repo) \o <<"/", "issues", "/", ToString(issue_number)>>,
                  [ EmptyDict EXCEPT !["title"] = IF Truthy(title) THEN title ELSE Absent,
                                     !["body"] = IF Truthy(body) THEN body ELSE Absent,
                                     !["state"] = IF Truthy(state) THEN state ELSE Absent ],
                  h, out)

get_branches(owner, repo, h, out) ==
    _make_request("get_branches", [NoArgs EXCEPT !.owner = owner, !.repo = repo], "GET",
                  RepoEndpoint(owner, repo) \o <<"/", "branches">>, EmptyDict, h, out)

\* urllib.parse.quote leaves the words of the modelled queries unchanged.
search_repositories(query, sort, order, h, out) ==
    _make_request("search_repositories", [NoArgs EXCEPT !.extra = << query, sort, order >>],
                  "GET",
                  <<"search", "/", "repositories", "?", "q", "=">> \o query
                      \o <<"&", "sort", "=">> \o sort \o <<"&", "order", "=">> \o order,
                  EmptyDict, h, out)

search_users(query, h, out) ==
    _make_request("search_users", [NoArgs EXCEPT !.extra = << query >>], "GET",
                  <<"search", "/", "users", "?", "q", "=">> \o query,
                  EmptyDict, h, out)

\* ------------------------------------------------------------------------
\* GitHubHandler (github_dingtalk_agent.py): the handlers
\* ------------------------------------------------------------------------

\* What a branch of process leaves behind: an exception (exc, text), or the
\* value bound to `result` (bound is FALSE when the branch assigned none), the
\* upstream calls made and the client's headers afterwards.
Returned(r) == [ exc |-> r.exc, text |-> r.text, value |-> r.value, bound |-> TRUE,
                 calls |-> r.calls, headers |-> r.headers ]

\* An exception raised before any upstream call.
Raise(text, h) == [ exc |-> TRUE, text |-> text, value |-> "", bound |-> FALSE,
                    calls |-> <<>>, headers |-> h ]

\* A branch whose method tests all fail: `result` is never assigned.
Unbound(h) == [ exc |-> FALSE, text |-> <<>>, value |-> "", bound |-> FALSE,
                calls |-> <<>>, headers |-> h ]

_get_current_user(h, out) == Returned(get_user(<<>>, h, out))

_get_user(username, h, out) == Returned(get_user(username, h, out))

_get_user_repos(per_page, h, out) == Returned(get_user_repos(per_page, h, out))

_get_repo(owner, repo, h, out) == Returned(get_repo(owner, repo, h, out))

_create_repo(data, h, out) ==
    IF ~data.isDict THEN Raise(<<"'list' object has no attribute 'get'">>, h)
    ELSE Returned(create_repo(Get(data.obj, "name", Null),
                              Get(data.obj, "description", Str("")),
                              Get(data.obj, "private", Bool("false")), h, out))

_delete_repo(owner, repo, h, out) == Returned(delete_repo(owner, repo, h, out))

_fork_repo(owner, repo, h, out) == Returned(fork_repo(owner, repo, h, out))

_get_file_content(owner, repo, path, ref, h, out) ==
    Returned(get_file_content(owner, repo, path, ref, h, out))

\* `if sha:` chooses update_file for a truthy sha and create_file otherwise.
SelectsUpdate(sha) == Truthy(sha)

_create_or_update_file(owner, repo, path, data, h, out) ==
    IF ~data.isDict THEN Raise(<<"list indices must be integers or slices, not str">>, h)
    ELSE IF data.obj["content"] = Absent THEN Raise(<<"'content'">>, h)
    ELSE IF B64Decode(data.obj["content"]).error
         THEN Raise(B64Decode(data.obj["content"]).text, h)
    ELSE IF data.obj["message"] = Absent THEN Raise(<<"'message'">>, h)
    ELSE LET content == B64Decode(data.obj["content"]).value
             message == data.obj["message"]
             branch  == Get(data.obj, "branch", Str("main"))
             sha     == Get(data.obj, "sha", Null)
         IN  IF SelectsUpdate(sha)
             THEN Returned(update_file(owner, repo, path, content, message, sha, branch,
                                       h, out))
             ELSE Returned(create_file(owner, repo, path, content, message, branch, h, out))

_get_issues(owner, repo, state, h, out) == Returned(get_issues(owner, repo, state, h, out))

_create_issue(owner, repo, data, h, out) ==
    IF ~data.isDict THEN Raise(<<"list indices must be integers or slices, not str">>, h)
    ELSE IF data.obj["title"] = Absent THEN Raise(<<"'title'">>, h)
    ELSE Returned(create_issue(owner, repo, data.obj["title"],
                               Get(data.obj, "body", Str("")),
                               Get(data.obj, "labels", List("")), h, out))

_update_issue(owner, repo, issue_number, data, h, out) ==
    IF ~data.isDict THEN Raise(<<"'list' object has no attribute 'get'">>, h)
    ELSE Returned(update_issue(owner, repo, issue_number,
                               Get(data.obj, "title", Null),
                               Get(data.obj, "body", Null),
                               Get(data.obj, "state", Null), h, out))

_search_repositories(query, sort, order, h, out) ==
    Returned(search_repositories(query, sort, order, h, out))

\* The handler takes sort and order and passes only the query on.
_search_users(query, sort, order, h, out) == Returned(search_users(query, h, out))

_get_branches(owner, repo, h, out) == Returned(get_branches(owner, repo, h, out))

\* ------------------------------------------------------------------------
\* GitHubHandler.process: the if/elif chain
\* ------------------------------------------------------------------------

\* parts[i], with i counted from 0 as in Python.
Part(parts, i) == parts[i + 1]

IndexError(h) == Raise(<<"list index out of range">>, h)

\* The path tests of the chain, in its order.
IsUser(path) == path = <<"/", "user">>
IsUsers(path) == StartsWith(path, <<"/", "users", "/">>)
IsUserRepos(path) == path = <<"/", "user", "/", "repos">>
IsRepo(path) == StartsWith(path, <<"/", "repos", "/">>) /\ Count(path, "/") = 3
IsContents(path) == Contains(path, <<"/", "contents", "/">>)
IsIssues(path) == EndsWith(path, <<"/", "issues">>)
IsIssue(path) == Contains(path, <<"/", "issues", "/">>) /\ Count(path, "/") = 5
IsSearchRepositories(path) == path = <<"/", "search", "/", "repositories">>
IsSearchUsers(path) == path = <<"/", "search", "/", "users">>
IsForks(path) == EndsWith(path, <<"/", "forks">>)
IsBranches(path) == EndsWith(path, <<"/", "branches">>)
IsCreateRepo(method, path) == path = <<"/", "user", "/", "repos">> /\ method = "POST"

\* The branch of the chain that a request takes: the first whose test holds.
Route(method, path) ==
    IF IsUser(path) THEN "user"
    ELSE IF IsUsers(path) THEN "users"
    ELSE IF IsUserRepos(path) THEN "user_repos"
    ELSE IF IsRepo(path) THEN "repo"
    ELSE IF IsContents(path) THEN "contents"
    ELSE IF IsIssues(path) THEN "issues"
    ELSE IF IsIssue(path) THEN "issue"
    ELSE IF IsSearchRepositories(path) THEN "search_repositories"
    ELSE IF IsSearchUsers(path) THEN "search_users"
    ELSE IF IsForks(path) THEN "forks"
    ELSE IF IsBranches(path) THEN "branches"
    ELSE IF IsCreateRepo(method, path) THEN "create_repo"
    ELSE "none"

UserRepos(query, h, out) ==
    LET per_page == IntOf(QueryGet(query, "per_page", <<"30">>))
    IN  IF per_page.error
        THEN Raise(<<"invalid literal for int() with base 10: ">>
                       \o QueryGet(query, "per_page", <<"30">>), h)
        ELSE _get_user_repos(per_page.value, h, out)

Repo(method, path, h, out) ==
    LET parts == Split(path, <<"/">>)
    IN  IF method = "GET" THEN _get_repo(Part(parts, 2), Part(parts, 3), h, out)
        ELSE IF method = "DELETE" THEN _delete_repo(Part(parts, 2), Part(parts, 3), h, out)
        ELSE Unbound(h)

Contents(method, path, query, body, h, out) ==
    LET parts == Split(path, <<"/">>)
        file_path == Join(From(parts, 5), <<"/">>)
    IN  IF Len(parts) < 4 THEN IndexError(h)
        ELSE IF method = "GET"
             THEN _get_file_content(Part(parts, 2), Part(parts, 3), file_path,
                                    QueryGet(query, "ref", <<"main">>), h, out)
        ELSE IF method = "PUT"
             THEN IF JsonLoadsBody(body).error THEN Raise(JsonLoadsBody(body).text, h)
                  ELSE _create_or_update_file(Part(parts, 2), Part(parts, 3), file_path,
                                              JsonLoadsBody(body), h, out)
        ELSE Unbound(h)

Issues(method, path, query, body, h, out) ==
    LET parts == Split(path, <<"/">>)
    IN  IF Len(parts) < 4 THEN IndexError(h)
        ELSE IF method = "GET"
             THEN _get_issues(Part(parts, 2), Part(parts, 3),
                              QueryGet(query, "state", <<"open">>), h, out)
        ELSE IF method = "POST"
             THEN IF JsonLoadsBody(body).error THEN Raise(JsonLoadsBody(body).text, h)
                  ELSE _create_issue(Part(parts, 2), Part(parts, 3), JsonLoadsBody(body),
                                     h, out)
        ELSE Unbound(h)

Issue(method, path, body, h, out) ==
    LET parts == Split(path, <<"/">>)
        issue_number == IntOf(Part(parts, 5))
    IN  IF issue_number.error
        THEN Raise(<<"invalid literal for int() with base 10: ">> \o Part(parts, 5), h)
        ELSE IF method = "PATCH"
             THEN IF JsonLoadsBody(body).error THEN Raise(JsonLoadsBody(body).text, h)
                  ELSE _update_issue(Part(parts, 2), Part(parts, 3), issue_number.value,
                                     JsonLoadsBody(body), h, out)
        ELSE Unbound(h)

Forks(path, h, out) ==
    LET parts == Split(path, <<"/">>)
    IN  IF Len(parts) < 4 THEN IndexError(h)
        ELSE _fork_repo(Part(parts, 2), Part(parts, 3), h, out)

Branches(path, h, out) ==
    LET parts == Split(path, <<"/">>)
    IN  IF Len(parts) < 4 THEN IndexError(h)
        ELSE _get_branches(Part(parts, 2), Part(parts, 3), h, out)

CreateRepo(body, h, out) ==
    IF JsonLoadsBody(body).error THEN Raise(JsonLoadsBody(body).text, h)
    ELSE _create_repo(JsonLoadsBody(body), h, out)

\* The body of the branch taken.
Dispatch(route, method, path, query, body, h, out) ==
    CASE route = "user" -> _get_current_user(h, out)
      [] route = "users" ->
           _get_user(Part(Split(path, <<"/", "users", "/">>), 1), h, out)
      [] route = "user_repos" -> UserRepos(query, h, out)
      [] route = "repo" -> Repo(method, path, h, out)
      [] route = "contents" -> Contents(method, path, query, body, h, out)
      [] route = "issues" -> Issues(method, path, query, body, h, out)
      [] route = "issue" -> Issue(method, path, body, h, out)
      [] route = "search_repositories" ->
           _search_repositories(QueryGet(query, "q", <<>>), QueryGet(query, "sort", <<>>),
                                QueryGet(query, "order", <<"desc">>), h, out)
      [] route = "search_users" ->
           _search_users(QueryGet(query, "q", <<>>), QueryGet(query, "sort", <<>>),
                         QueryGet(query, "order", <<"desc">>), h, out)
      [] route = "forks" -> Forks(path, h, out)
      [] route = "branches" -> Branches(path, h, out)
      [] route = "create_repo" -> CreateRepo(body, h, out)

\* ------------------------------------------------------------------------
\* The response envelope
\* ------------------------------------------------------------------------

\* json.dumps of the three bodies process builds.
DumpsResult(value) ==
    [ kind |-> "result", error |-> "", path |-> <<>>, message |-> <<>>, result |-> value ]
DumpsNotFound(path) ==
    [ kind |-> "notfound", error |-> "Endpoint not found", path |-> path,
      message |-> <<>>, result |-> "" ]
DumpsError(text) ==
    [ kind |-> "error", error |-> "Internal server error", path |-> <<>>,
      message |-> text, result |-> "" ]

\* GraphResponse() before process fills it: no body.
NoBody == [ kind |-> "none", error |-> "", path |-> <<>>, message |-> <<>>, result |-> "" ]

JsonHeaders == { <<"Content-Type", "application/json">> }

OkResponse(value) ==
    [ code |-> 200, reason |-> "OK", headers |-> JsonHeaders, body |-> DumpsResult(value) ]

NotFoundResponse(path) ==
    [ code |-> 404, reason |-> "Not Found", headers |-> JsonHeaders,
      body |-> DumpsNotFound(path) ]

ErrorResponse(text) ==
    [ code |-> 500, reason |-> "Internal Server Error", headers |-> JsonHeaders,
      body |-> DumpsError(text) ]

\* No envelope: process raised instead of returning.
NoResponse == [ code |-> 0, reason |-> "", headers |-> {}, body |-> NoBody ]

\* The try block of process and its except clause: [response, calls, headers].
\* Reading `result` when no branch bound it is an UnboundLocalError, caught
\* like any other exception.
Handle(method, path, query, body, h, out) ==
    LET route == Route(method, path)
        r     == Dispatch(route, method, path, query, body, h, out)
    IN  IF route = "none"
        THEN [ response |-> NotFoundResponse(path), calls |-> <<>>, headers |-> h ]
        ELSE [ response |->
                   IF r.exc THEN ErrorResponse(r.text)
                   ELSE IF ~r.bound
                        THEN ErrorResponse(<<"cannot access local variable 'result' where it is not associated with a value">>)
                   ELSE OkResponse(r.value),
               calls |-> r.calls, headers |-> r.headers ]

\* ------------------------------------------------------------------------
\* The requests and upstream answers the model draws from
\* ------------------------------------------------------------------------

Methods == {"GET", "POST", "PUT", "PATCH", "DELETE"}

\* "/" + "/".join(segs); "" is an empty segment.
UriOf(segs) ==
    <<"/">> \o Join([ i \in 1..Len(segs) |-> IF segs[i] = "" THEN <<>> ELSE << segs[i] >> ],
                    <<"/">>)

\* Owner and repository names, among them the words the path tests look for.
Owners == {"o", "contents", "issues"}
Repos == {"r", "contents", "issues", "forks", "branches"}

\* File paths f, f/f, ... of up to MaxFilePath segments.
FilePaths == UNION { [ 1..n -> {"f"} ] : n \in 1..MaxFilePath }

RepoUris ==
    { UriOf(<<"repos", ab[1], ab[2]>>) : ab \in Owners \X Repos }
    \cup { UriOf(<<"repos", ab[1], ab[2], t>>) :
             ab \in Owners \X Repos, t \in {"issues", "forks", "branches"} }
    \cup { UriOf(<<"repos", ab[1], ab[2], "contents">> \o fp) :
             ab \in Owners \X Repos, fp \in FilePaths }
    \cup { UriOf(<<"repos", ab[1], ab[2], "issues", n>>) :
             ab \in Owners \X Repos, n \in {"7", "x"} }

OtherUris ==
    { <<>>, <<"/">>, <<"user">>,
      UriOf(<<"user">>), UriOf(<<"user", "repos">>), UriOf(<<"users", "x">>),
      UriOf(<<"users", "">>), UriOf(<<"users", "x", "users", "o">>),
      UriOf(<<"users", "x", "contents", "f">>),
      UriOf(<<"search", "repositories">>), UriOf(<<"search", "users">>),
      UriOf(<<"unknown", "thing">>), UriOf(<<"repos", "o">>), UriOf(<<"repos", "", "r">>),
      UriOf(<<"issues">>), UriOf(<<"forks">>), UriOf(<<"branches">>),
      UriOf(<<"contents", "f">>), UriOf(<<"o", "r", "forks">>),
      UriOf(<<"repos", "o", "r", "issues", "07">>),
      UriOf(<<"x", "issues", "o", "r", "7">>), UriOf(<<"x", "issues", "o", "r", "x">>),
      UriOf(<<"user", "repos">>) \o <<"?", "per_page", "=", "5">>,
      UriOf(<<"user", "repos">>) \o <<"?", "per_page", "=", "x">>,
      UriOf(<<"repos", "o", "r", "issues">>) \o <<"?", "state", "=", "closed">>,
      UriOf(<<"repos", "o", "r", "contents", "f">>) \o <<"?", "ref", "=", "dev">>,
      UriOf(<<"search", "repositories">>)
          \o <<"?", "q", "=", "python", "&", "sort", "=", "stars", "&", "order", "=", "asc">>,
      UriOf(<<"search", "users">>) \o <<"?", "q", "=", "python", "&", "sort", "=">>,
      UriOf(<<"user">>) \o <<"#", "frag">>,
      <<"/", "repos", "%2F", "o", "%2F", "r">>,
      <<"/", "unknown", "%3F", "thing">>,
      <<"/", "unknown", "/", "thing", "%23", "x">>,
      <<"/", "/", "o", "/", "user">>,
      <<"/", "/", "[">>,
      <<"/", "/", "%5B", "o", "/", "user">> }

Uris == RepoUris \cup OtherUris

Objects ==
    { EmptyDict,
      Dict([content |-> Str("aGVsbG8="), message |-> Str("add")]),
      Dict([content |-> Str("aGVsbG8="), message |-> Str("add"), sha |-> Str("abc123")]),
      Dict([content |-> Str("aGk="), message |-> Str("add"), sha |-> Str("abc123"),
            branch |-> Str("dev")]),
      Dict([content |-> Str("aGVsbG8="), message |-> Str("add"), sha |-> Str("")]),
      Dict([content |-> Str("aGVsbG8="), message |-> Str("add"), sha |-> Null]),
      Dict([content |-> Str("aGVsbG8"), message |-> Str("add")]),
      Dict([content |-> Str("/w=="), message |-> Str("add"), sha |-> Str("abc123")]),
      Dict([content |-> Str("aGVsbG8=")]),
      Dict([title |-> Str("t")]),
      Dict([title |-> Str("t"), body |-> Str("b"), labels |-> List("bug")]),
      Dict([state |-> Str("closed")]),
      Dict([title |-> Str(""), state |-> Str("closed")]),
      Dict([name |-> Str("n"), description |-> Str("d"), private |-> Bool("true")]) }

Bodies ==
    { [kind |-> "empty", obj |-> EmptyDict],
      [kind |-> "malformed", obj |-> EmptyDict],
      [kind |-> "array", obj |-> EmptyDict] }
    \cup { [kind |-> "object", obj |-> o] : o \in Objects }

\* What the upstream service can answer to a call.
Outcomes ==
    { [kind |-> "ok", code |-> 200, message |-> "{\"login\": \"x\"}"],
      [kind |-> "ok_empty", code |-> 204, message |-> ""],
      [kind |-> "http_json", code |-> 422, message |-> "Validation Failed"],
      [kind |-> "http_json", code |-> 404, message |-> "Not Found"],
      [kind |-> "http_json", code |-> 500, message |-> "Server Error"],
      [kind |-> "http_json_nomsg", code |-> 403, message |-> ""],
      [kind |-> "http_text", code |-> 502, message |-> "Bad Gateway"],
      [kind |-> "network", code |-> 0, message |-> "Name or service not known"] }

NoOutcome == [kind |-> "none", code |-> 0, message |-> ""]

NoRequest == [method |-> "", uri |-> <<>>, body |-> [kind |-> "empty", obj |-> EmptyDict]]

\* ------------------------------------------------------------------------
\* The state machine
\* ------------------------------------------------------------------------

\* The state after GitHubHandler.__init__: a client with its constructed
\* headers, waiting for the first callback.
Init ==
    /\ pc = "idle"
    /\ headers = InitHeaders
    /\ request = NoRequest
    /\ upstream = NoOutcome
    /\ raised = FALSE
    /\ ack = ""
    /\ response = NoResponse
    /\ calls = <<>>

\* process ends by returning (ack, envelope) after the try block; r is what
\* the try block and its except clause left, `out` the upstream's answer to
\* the call, if one was made.
Returns(r, out) ==
    /\ raised' = FALSE
    /\ ack' = "STATUS_OK"
    /\ response' = r.response
    /\ calls' = r.calls
    /\ upstream' = IF r.calls = <<>> THEN NoOutcome ELSE out
    /\ headers' = r.headers

\* process ends by an exception of unquote, urlparse or parse_qs, which run
\* before the try block: no envelope is returned.
Propagates ==
    /\ raised' = TRUE
    /\ ack' = ""
    /\ response' = NoResponse
    /\ calls' = <<>>
    /\ upstream' = NoOutcome
    /\ UNCHANGED headers

\* process(callback) for one request envelope.  The upstream's answer is
\* drawn when a call is made; whether one is made is decided before the
\* answer is known, so it is read off the run under any answer.
process(method, uri, body) ==
    /\ pc = "idle"
    /\ pc' = "done"
    /\ request' = [method |-> method, uri |-> uri, body |-> body]
    /\ \E url \in { urlparse(unquote(uri)) } :
         IF url.error THEN Propagates
         ELSE \E pre \in { Handle(method, url.path, url.query, body, headers, NoOutcome) } :
                IF pre.calls = <<>> THEN Returns(pre, NoOutcome)
                ELSE \E out \in Outcomes :
                       \E r \in { Handle(method, url.path, url.query, body, headers, out) } :
                          Returns(r, out)

\* The stream client has taken what process returned and waits for the next
\* callback; only the client's headers outlive the request.
NextCallback ==
    /\ pc = "done"
    /\ pc' = "idle"
    /\ request' = NoRequest
    /\ upstream' = NoOutcome
    /\ raised' = FALSE
    /\ ack' = ""
    /\ response' = NoResponse
    /\ calls' = <<>>
    /\ UNCHANGED headers

\* A callback arrives only when the handler is idle.
Next ==
    \/ /\ pc = "idle"
       /\ \E method \in Methods, uri \in Uris, body \in Bodies : process(method, uri, body)
    \/ NextCallback

Spec == Init /\ [][Next]_vars

\* ------------------------------------------------------------------------
\* Vocabulary of the properties
\* ------------------------------------------------------------------------

\* process has ended for the request in `request`, by returning an envelope.
Handled == pc = "done" /\ ~raised

\* The decoded path of the request, and its segments.
ReqPath == urlparse(unquote(request.uri)).path
ReqParts == Split(ReqPath, <<"/">>)

\* The request body as the handlers decode it.
ReqData == JsonLoadsBody(request.body)

\* The tokens of a message text.
Tokens(text) == { text[i] : i \in 1..Len(text) }

\* The route table of the specification (section 4.2): the path shape and
\* the methods of each row, as the table words them.
TableRows == 1..12

TablePath(n, path) ==
    LET parts == Split(path, <<"/">>)
    IN  CASE n = 1 -> path = <<"/", "user">>
          [] n = 2 -> StartsWith(path, <<"/", "users", "/">>)
          [] n = 3 -> path = <<"/", "user", "/", "repos">>
          [] n = 4 -> Len(parts) = 4 /\ parts[1] = <<>> /\ parts[2] = <<"repos">>
          [] n = 5 -> \E i \in 1..Len(parts) : parts[i] = <<"contents">>
          [] n = 6 -> parts[Len(parts)] = <<"issues">>
          [] n = 7 -> /\ Len(parts) = 6 /\ parts[1] = <<>>
                      /\ parts[2] = <<"repos">> /\ parts[5] = <<"issues">>
          [] n = 8 -> path = <<"/", "search", "/", "repositories">>
          [] n = 9 -> path = <<"/", "search", "/", "users">>
          [] n = 10 -> parts[Len(parts)] = <<"forks">>
          [] n = 11 -> parts[Len(parts)] = <<"branches">>
          [] OTHER -> path = <<"/", "user", "/", "repos">>

TableMethods(n) ==
    CASE n \in {1, 2, 3, 8, 9, 11} -> {"GET"}
      [] n = 4 -> {"GET", "DELETE"}
      [] n = 5 -> {"GET", "PUT"}
      [] n = 6 -> {"GET", "POST"}
      [] n = 7 -> {"PATCH"}
      [] n = 10 -> Methods
      [] OTHER -> {"POST"}

\* The not-found envelope for a path.
IsNotFound(resp, path) ==
    /\ resp.code = 404
    /\ resp.reason = "Not Found"
    /\ resp.body.kind = "notfound"
    /\ resp.body.error = "Endpoint not found"
    /\ resp.body.path = path

\* The 500 envelope.
IsServerError(resp) ==
    /\ resp.code = 500
    /\ resp.reason = "Internal Server Error"
    /\ resp.body.kind = "error"
    /\ resp.body.error = "Internal server error"

\* ------------------------------------------------------------------------
\* C1
\* ------------------------------------------------------------------------

\* C1: a request whose path fits the shape of a table row, but whose method
\* no row with a fitting shape permits, fires no rule: no upstream operation
\* is invoked and the response is the not-found envelope (404, "Not Found",
\* the unmatched path in the body).
C1_MethodNotPermittedIsNotFound ==
    ( /\ Handled
      /\ \E n \in TableRows : TablePath(n, ReqPath)
      /\ \A n \in TableRows : ~(TablePath(n, ReqPath) /\ request.method \in TableMethods(n)) )
    => ( calls = <<>> /\ IsNotFound(response, ReqPath) )

\* ------------------------------------------------------------------------
\* C2
\* ------------------------------------------------------------------------

\* C2: every POST whose path is exactly /user/repos is dispatched to the
\* create-repo operation, called with the body's name, description (default
\* "") and private (default false), and never to the list-own-repos
\* operation.
C2_PostUserReposCreatesRepo ==
    ( Handled /\ request.method = "POST" /\ ReqPath = <<"/", "user", "/", "repos">> )
    => ( /\ \A i \in 1..Len(calls) : calls[i].op # "get_user_repos"
         /\ (~ReqData.error /\ ReqData.isDict) =>
              ( /\ Len(calls) = 1
                /\ calls[1].op = "create_repo"
                /\ calls[1].args["name"] = Get(ReqData.obj, "name", Null)
                /\ calls[1].args["description"] = Get(ReqData.obj, "description", Str(""))
                /\ calls[1].args["private"] = Get(ReqData.obj, "private", Bool("false")) ) )

\* ------------------------------------------------------------------------
\* C3
\* ------------------------------------------------------------------------

\* C3: for every request envelope process returns the acknowledgement token
\* and an envelope whose (status, reason) is (200, OK), (404, Not Found) or
\* (500, Internal Server Error), with the JSON content type and a JSON body;
\* no failure, URI decoding included, propagates out of process.
C3_AlwaysReturnsAnEnvelope ==
    pc = "done" =>
        ( /\ ~raised
          /\ ack = "STATUS_OK"
          /\ <<response.code, response.reason>> \in
                 { <<200, "OK">>, <<404, "Not Found">>, <<500, "Internal Server Error">> }
          /\ <<"Content-Type", "application/json">> \in response.headers
          /\ response.body.kind \in {"result", "notfound", "error"} )

\* ------------------------------------------------------------------------
\* C4
\* ------------------------------------------------------------------------

\* C4: a request whose decoded path fits the path shape of none of the table
\* rows 1 to 12 gets, whatever its method and body, status 404, reason
\* "Not Found" and the body {"error": "Endpoint not found", "path": p} with p
\* the decoded path, and no upstream operation is invoked.
C4_UnmatchedPathIsNotFound ==
    ( Handled /\ \A n \in TableRows : ~TablePath(n, ReqPath) )
    => ( calls = <<>> /\ IsNotFound(response, ReqPath) )

\* ------------------------------------------------------------------------
\* C5
\* ------------------------------------------------------------------------

\* The upstream call failed: the remote rejected it, or it was unreachable.
UpstreamFailed == upstream.kind \in {"http_json", "http_json_nomsg", "http_text", "network"}

\* C5: whenever the upstream operation invoked for a request fails (remote
\* rejected with status N and message M, or network unreachable), the
\* response is the 500 envelope, its message contains the failure's message,
\* and the outbound status is 500 whatever N is (so it differs from every
\* N other than 500).
C5_UpstreamFailureCollapsesTo500 ==
    ( Handled /\ calls # <<>> /\ UpstreamFailed )
    => ( /\ IsServerError(response)
         /\ upstream.kind \in {"http_json", "http_text", "network"}
              => upstream.message \in Tokens(response.body.message)
         /\ upstream.code # 500 => response.code # upstream.code )

\* A remote rejection with status 422 and a message has been answered.
C5_Witness ==
    /\ Handled
    /\ calls # <<>>
    /\ upstream.kind = "http_json"
    /\ upstream.code = 422
    /\ response.code = 500
    /\ "Validation Failed" \in Tokens(response.body.message)

\* ------------------------------------------------------------------------
\* C6
\* ------------------------------------------------------------------------

\* The path is /repos/{owner}/{repo}.
IsRepoPath(parts) == Len(parts) = 4 /\ parts[1] = <<>> /\ parts[2] = <<"repos">>

\* The path is /repos/{owner}/{repo}/issues, .../forks or .../branches.
IsRepoSuffixPath(parts) ==
    /\ Len(parts) = 5 /\ parts[1] = <<>> /\ parts[2] = <<"repos">>
    /\ parts[5] \in { <<"issues">>, <<"forks">>, <<"branches">> }

\* The methods rows 6, 10 and 11 permit on such a path.
SuffixMethods(t) ==
    CASE t = <<"issues">> -> {"GET", "POST"}
      [] t = <<"forks">> -> Methods
      [] OTHER -> {"GET"}

\* The operation of row 6, 10 or 11 for a method.
SuffixOp(t, method) ==
    CASE t = <<"issues">> -> IF method = "GET" THEN "get_issues" ELSE "create_issue"
      [] t = <<"forks">> -> "fork_repo"
      [] OTHER -> "get_branches"

\* The request carries what its operation needs: create-issue needs a body
\* that is a JSON mapping with a title.
SuffixBodyFits(t, method) ==
    (t = <<"issues">> /\ method = "POST")
        => (~ReqData.error /\ ReqData.isDict /\ ReqData.obj["title"] # Absent)

\* Exactly one upstream call, of operation op, for owner and repo.
InvokedOnce(op, owner, repo) ==
    /\ Len(calls) = 1
    /\ calls[1].op = op
    /\ calls[1].owner = owner
    /\ calls[1].repo = repo

\* C6: for every owner and repo segment, GET and DELETE on
\* /repos/{owner}/{repo} invoke get-repo and delete-repo with that owner and
\* repo, also when the repo segment is issues, forks or branches; and a
\* request on /repos/{owner}/{repo}/issues, .../forks or .../branches with a
\* permitted method invokes the operation of row 6, 10 or 11 with owner =
\* second segment and repo = third segment, never the operation of row 4.
\* The second part is stated for the requests that no earlier row of the
\* table covers (row 5 covers GET and PUT on a path with a contents segment).
C6_RepoRoutesForEveryName ==
    Handled =>
        /\ (IsRepoPath(ReqParts) /\ request.method \in {"GET", "DELETE"})
             => InvokedOnce(IF request.method = "GET" THEN "get_repo" ELSE "delete_repo",
                            ReqParts[3], ReqParts[4])
        /\ ( /\ IsRepoSuffixPath(ReqParts)
             /\ request.method \in SuffixMethods(ReqParts[5])
             /\ SuffixBodyFits(ReqParts[5], request.method)
             /\ ~(TablePath(5, ReqPath) /\ request.method \in TableMethods(5)) )
             => InvokedOnce(SuffixOp(ReqParts[5], request.method), ReqParts[3], ReqParts[4])

\* ------------------------------------------------------------------------
\* C7
\* ------------------------------------------------------------------------

\* The path is /repos/{owner}/{repo}/contents/{file path}.
IsContentsPath(parts) ==
    /\ Len(parts) >= 6 /\ parts[1] = <<>> /\ parts[2] = <<"repos">>
    /\ parts[5] = <<"contents">>

\* C7: for every PUT to a contents path whose body holds content and message:
\* when the body contains a sha field, whatever its value, update-file is
\* invoked with that sha; when it contains none, create-file is invoked;
\* exactly one of the two is invoked, with branch "main" when the body gives
\* none.
C7_ShaFieldSelectsUpdate ==
    ( /\ Handled
      /\ request.method = "PUT"
      /\ IsContentsPath(ReqParts)
      /\ ~ReqData.error /\ ReqData.isDict
      /\ ReqData.obj["content"] # Absent
      /\ ~B64Decode(ReqData.obj["content"]).error
      /\ ReqData.obj["message"] # Absent )
    => ( /\ Len(calls) = 1
         /\ IF ReqData.obj["sha"] # Absent
            THEN calls[1].op = "update_file" /\ calls[1].args["sha"] = ReqData.obj["sha"]
            ELSE calls[1].op = "create_file"
         /\ calls[1].args["branch"] = Get(ReqData.obj, "branch", Str("main")) )

\* ------------------------------------------------------------------------
\* C8
\* ------------------------------------------------------------------------

\* The text of the JSON parse error.
ParseErrorText == <<"Expecting value: line 1 column 1 (char 0)">>

\* The request fits a row of the table, path shape and method.
FitsARow == \E n \in TableRows : TablePath(n, ReqPath) /\ request.method \in TableMethods(n)

ReadsBody ==
    \/ /\ Route(request.method, ReqPath) = "contents"
       /\ request.method = "PUT" /\ Len(ReqParts) >= 4
    \/ /\ Route(request.method, ReqPath) = "issues"
       /\ request.method = "POST" /\ Len(ReqParts) >= 4
    \/ /\ Route(request.method, ReqPath) = "issue"
       /\ request.method = "PATCH" /\ ~IntOf(ReqParts[6]).error

IsIssuePath(parts) ==
    /\ Len(parts) = 6 /\ parts[1] = <<>> /\ parts[2] = <<"repos">>
    /\ parts[5] = <<"issues">> /\ ~IntOf(parts[6]).error

\* C9: every PATCH on /repos/{owner}/{repo}/issues/{number} invokes
\* update-issue with owner = second segment, repo = third segment and the
\* number as an integer, and the payload sent upstream holds exactly those of
\* title, body and state that the request body holds.
C9_PatchIssueForwardsPresentFields ==
    ( /\ Handled
      /\ request.method = "PATCH"
      /\ IsIssuePath(ReqParts)
      /\ ~ReqData.error /\ ReqData.isDict )
    => ( /\ InvokedOnce("update_issue", ReqParts[3], ReqParts[4])
         /\ calls[1].number = IntOf(ReqParts[6]).value
         /\ \A k \in {"title", "body", "state"} :
                calls[1].payload[k] = ReqData.obj[k] )

\* ------------------------------------------------------------------------
\* C10
\* ------------------------------------------------------------------------

\* C10: handling a request leaves the state shared between requests
\* unchanged: after any sequence of requests the client's headers are those
\* built at construction, and the headers sent with a request's upstream call
\* depend only on that request (the constructed headers, plus Content-Type
\* when this call carries a payload).
C10_HeadersAsConstructed ==
    /\ headers = InitHeaders
    /\ \A i \in 1..Len(calls) :
           calls[i].headers = IF calls[i].sent THEN SetContentType(InitHeaders)
                              ELSE InitHeaders

\* ------------------------------------------------------------------------
\* C11
\* ------------------------------------------------------------------------

\* C11: each request causes at most one call to the upstream service and
\* never a retry: a request answered 200 made exactly one upstream call, a
\* request answered 404 made none, and a request answered 500 made at most
\* one, which is not repeated after it fails.
C11_AtMostOneUpstreamCall ==
    Handled =>
        /\ Len(calls) <= 1
        /\ response.code \in {200, 404, 500}
        /\ response.code = 200 => Len(calls) = 1
        /\ response.code = 404 => Len(calls) = 0
        /\ UpstreamFailed => Len(calls) = 1

\* A request whose single upstream call failed on the network has been
\* answered 500.
C11_Witness ==
    /\ Handled
    /\ response.code = 500
    /\ upstream.kind = "network"
    /\ Len(calls) = 1

====
